---------------------------- MODULE Spec2Model ----------------------------
(***************************************************************************)
(* Model of thirsty/cli.py: the pipeline that adds drinking-water POIs to  *)
(* a GPX trace (bounding box, Overpass query, proximity filter, waypoint   *)
(* merge, output), and each of its functions called on its own.            *)
(*                                                                         *)
(* Coordinates are whole degrees on the quadrantal grid (multiples of 90), *)
(* where every term of the haversine formula is exact.  Distances are      *)
(* whole metres (rounded down), thresholds are whole metres.               *)
(***************************************************************************)
EXTENDS Integers, Sequences, FiniteSets, TLC

VARIABLES
    entry,       \* the function of cli.py the caller invoked
    pc,          \* "call" before it runs, "returned" or "raised" after
    exc,         \* name of the exception that propagated ("" if none)
    at,          \* the stage of main (or the function) that raised ("" if none)
    env,         \* the outside world: files, network, command line
    gpx0,        \* the GPX object as handed in (or as the input file parses)
    gpx,         \* the GPX object now: [tracks, waypoints]
    cats,        \* query_POIs: the POI objects passed in
    bounds,      \* (min_lat, min_lon, max_lat, max_lon), <<>> when not computed
    pois,        \* the POI list passed in (filter, add_waypoints, display)
    distance,    \* max_distance_m / args.distance
    posted,      \* the query texts sent to OVERPASS_URL, in order
    elements,    \* what the query returned
    nearby,      \* what filter_pois_near_track returned
    folium_map,  \* the map display_gpx_on_map built: [center, polylines, markers]
    outfile,     \* the output path: "absent", "old", "empty", "partial", "xml"
    htmlfile,    \* the <output>.html path: "absent" or "saved"
    printed      \* number of success messages printed

vars == <<entry, pc, exc, at, env, gpx0, gpx, cats, bounds, pois, distance,
          posted, elements, nearby, folium_map, outfile, htmlfile, printed>>

-----------------------------------------------------------------------------
(* Bounds of the model *)

MaxBoundsPoints == 3     \* track points of a GPX handed to get_bounds
MaxPoints == 2           \* track points of a GPX handed to the other functions
MaxPois == 3             \* length of a POI list
MaxOldWaypoints == 1     \* waypoints the GPX already has
MaxCats == 2             \* POI objects handed to query_POIs

None == "None"           \* Python's None, as str() shows it

-----------------------------------------------------------------------------
(* Sequences *)

RECURSIVE Flatten(_)
Flatten(ss) == IF ss = <<>> THEN <<>> ELSE Head(ss) \o Flatten(Tail(ss))

SeqsUpTo(S, n) == UNION {[1..k -> S] : k \in 0..n}

Range(s) == {s[i] : i \in DOMAIN s}

SetMin(S) == CHOOSE x \in S : \A y \in S : x <= y
SetMax(S) == CHOOSE x \in S : \A y \in S : x >= y

-----------------------------------------------------------------------------
(* The GPX data handed in.  A GPX object has tracks, each with segments,  *)
(* each with points, and a waypoint list of its own.                       *)

Point(lat, lon) == [latitude |-> lat, longitude |-> lon]

Waypoint(lat, lon) ==
    [latitude |-> lat, longitude |-> lon, name |-> "Water",
     description |-> "Water", symbol |-> "water-drop"]

OldWaypoint == [latitude |-> 90, longitude |-> 0, name |-> "Start",
                description |-> "", symbol |-> "flag"]

\* The tracks made of the points f, in order, cut where b says: b[i] tells
\* whether point i+1 continues the segment, opens a segment or opens a track.
BuildTracks(f, b) ==
    LET k == Len(f)
        trk(i) == 1 + Cardinality({j \in 1..(i-1) : b[j] = "trk"})
        first(t) == SetMin({i \in 1..k : trk(i) = t})
        seg(i) == 1 + Cardinality({j \in first(trk(i))..(i-1) : b[j] = "seg"})
        ptsOf(t, s) == {i \in 1..k : trk(i) = t /\ seg(i) = s}
        nSegs(t) == SetMax({seg(i) : i \in {j \in 1..k : trk(j) = t}})
    IN  [t \in 1..trk(k) |->
            [segments |->
                [s \in 1..nSegs(t) |->
                    [points |->
                        [p \in 1..Cardinality(ptsOf(t, s)) |->
                            f[SetMin(ptsOf(t, s)) + p - 1]]]]]]

\* Track lists without any point: no track, a track without segments, a
\* track whose only segment is empty.
EmptyTrackLists ==
    { <<>>,
      << [segments |-> <<>>] >>,
      << [segments |-> << [points |-> <<>>] >>] >> }

TrackLists(P, n) ==
    EmptyTrackLists \cup
    UNION { { BuildTracks(f, b) : b \in [1..(Len(f)-1) -> {"pt", "seg", "trk"}] }
            : f \in UNION {[1..k -> P] : k \in 1..n} }

GpxObjects(P, n, W) ==
    { [tracks |-> t, waypoints |-> w] : t \in TrackLists(P, n), w \in W }

NoGpx == [tracks |-> <<>>, waypoints |-> <<>>]

\* What a call hands back: a value, or the exception it raised.
Ok(v) == [exc |-> "", val |-> v]
Raise(e, v) == [exc |-> e, val |-> v]

-----------------------------------------------------------------------------
(* get_bounds *)

\* for trk in gpx.tracks for seg in trk.segments for pt in seg.points
AllPoints(g) ==
    Flatten([t \in DOMAIN g.tracks |->
                Flatten([s \in DOMAIN g.tracks[t].segments |->
                            g.tracks[t].segments[s].points])])

\* min() of a generator: ValueError when it yields nothing
Min(s) == IF s = <<>> THEN Raise("ValueError", 0) ELSE Ok(SetMin(Range(s)))
Max(s) == IF s = <<>> THEN Raise("ValueError", 0) ELSE Ok(SetMax(Range(s)))

\* A copy-paste slip: max_lon taken with min().
get_bounds_slip(g) ==
    LET pts == AllPoints(g)
        lats == [i \in DOMAIN pts |-> pts[i].latitude]
        lons == [i \in DOMAIN pts |-> pts[i].longitude]
    IN  IF Min(lats).exc # "" THEN Raise("ValueError", <<>>)
        ELSE Ok(<<Min(lats).val, Min(lons).val, Max(lats).val, Min(lons).val>>)

\* A slip that gives the empty track a box: min(..., default=0).
get_bounds_default(g) ==
    LET pts == AllPoints(g)
        lats == [i \in DOMAIN pts |-> pts[i].latitude]
        lons == [i \in DOMAIN pts |-> pts[i].longitude]
    IN  IF pts = <<>> THEN Ok(<<0, 0, 0, 0>>)
        ELSE Ok(<<Min(lats).val, Min(lons).val, Max(lats).val, Max(lons).val>>)

get_bounds(g) ==
    LET pts == AllPoints(g)
        lats == [i \in DOMAIN pts |-> pts[i].latitude]
        lons == [i \in DOMAIN pts |-> pts[i].longitude]
        min_lat == Min(lats)
        max_lat == Max(lats)
        min_lon == Min(lons)
        max_lon == Max(lons)
    IN  IF min_lat.exc # "" THEN Raise(min_lat.exc, <<>>)
        ELSE IF max_lat.exc # "" THEN Raise(max_lat.exc, <<>>)
        ELSE IF min_lon.exc # "" THEN Raise(min_lon.exc, <<>>)
        ELSE IF max_lon.exc # "" THEN Raise(max_lon.exc, <<>>)
        ELSE Ok(<<min_lat.val, min_lon.val, max_lat.val, max_lon.val>>)

-----------------------------------------------------------------------------
(* haversine, on the quadrantal grid.  Angles are whole degrees, multiples *)
(* of 90; sin^2 and a are carried doubled so that they stay whole.         *)

\* With R = 6371000 (Earth radius in meter): R * pi/2 and R * pi, in whole
\* metres.  d < m for a whole m exactly when the whole metres of d are < m.
QuarterMeridian == 10007543
HalfMeridian == 20015086

Lats == {-90, 0, 90}
Lons == {-180, -90, 0, 90, 180}

\* 2 * sin(radians(d) / 2) ** 2
TwoSinSqHalf(d) ==
    LET m == d % 360
    IN  CASE m = 0 -> 0 [] m = 90 -> 1 [] m = 180 -> 2 [] m = 270 -> 1

\* cos(radians(d))
Cos(d) ==
    LET m == d % 360
    IN  CASE m = 0 -> 1 [] m = 90 -> 0 [] m = 180 -> -1 [] m = 270 -> 0

\* R * 2 * atan2(sqrt(a), sqrt(1 - a)) in whole metres, given 2a:
\* a = 0 gives c = 0, a = 1/2 gives c = pi/2, a = 1 gives c = pi.
RTimesC(a2) ==
    CASE a2 = 0 -> 0 [] a2 = 1 -> QuarterMeridian [] a2 = 2 -> HalfMeridian

haversine(lat1, lon1, lat2, lon2) ==
    LET d_phi == lat2 - lat1
        d_lambda == lon2 - lon1
        a2 == TwoSinSqHalf(d_phi) + Cos(lat1) * Cos(lat2) * TwoSinSqHalf(d_lambda)
    IN  RTimesC(a2)

-----------------------------------------------------------------------------
(* POI elements as the Overpass API returns them: dicts with "lat", "lon"  *)
(* and "tags", any of which may be missing.                                *)

Poi(lat, lon, tags) == [keys |-> {"lat", "lon", "tags"}, lat |-> lat, lon |-> lon, tags |-> tags]

Without(poi, key) ==
    [keys |-> poi.keys \ {key},
     lat |-> IF key = "lat" THEN 0 ELSE poi.lat,
     lon |-> IF key = "lon" THEN 0 ELSE poi.lon,
     tags |-> poi.tags]

Fountain == Poi(0, 0, [amenity |-> "drinking_water"])
Spring == Poi(0, 90, [natural |-> "spring"])
Tap == Poi(90, 0, [amenity |-> "drinking_water"])

WellFormed == {Fountain, Spring, Tap}
Candidates == WellFormed \cup {Without(Fountain, "lat"), Without(Spring, "lon")}

Has(poi, key) == key \in poi.keys

-----------------------------------------------------------------------------
(* filter_pois_near_track *)

\* The comparison taken as "within": <= instead of <.
NearOrAt(lat, lon, points, max_distance_m) ==
    \E i \in DOMAIN points :
        haversine(lat, lon, points[i].latitude, points[i].longitude) <= max_distance_m

\* any(haversine(lat, lon, pt.latitude, pt.longitude) < max_distance_m for pt in points)
Near(lat, lon, points, max_distance_m) ==
    \E i \in DOMAIN points :
        haversine(lat, lon, points[i].latitude, points[i].longitude) < max_distance_m

\* nearby_pois.insert(0, poi) instead of append
KeepFirst(nearby_pois, poi) == <<poi>> \o nearby_pois

\* nearby_pois.append(poi)
Keep(nearby_pois, poi) == Append(nearby_pois, poi)

RECURSIVE FilterLoop(_, _, _, _)
FilterLoop(points, rest, max_distance_m, nearby_pois) ==
    IF rest = <<>> THEN Ok(nearby_pois)
    ELSE LET poi == Head(rest)
         IN  IF ~Has(poi, "lat") \/ ~Has(poi, "lon")
             THEN Raise("KeyError", <<>>)
             ELSE FilterLoop(points, Tail(rest), max_distance_m,
                             IF Near(poi.lat, poi.lon, points, max_distance_m)
                             THEN Keep(nearby_pois, poi)
                             ELSE nearby_pois)

filter_pois_near_track(g, ps, max_distance_m) ==
    FilterLoop(AllPoints(g), ps, max_distance_m, <<>>)

-----------------------------------------------------------------------------
(* add_waypoints_to_gpx: appends to the GPX object in place, so what was   *)
(* appended before an exception stays appended.                            *)

\* gpx.waypoints.insert(0, wpt) instead of append
PrependWaypoint(g, wpt) == [g EXCEPT !.waypoints = <<wpt>> \o @]

\* gpx.waypoints.append(wpt)
AppendWaypoint(g, wpt) == [g EXCEPT !.waypoints = Append(@, wpt)]

RECURSIVE add_waypoints_to_gpx(_, _)
add_waypoints_to_gpx(g, ps) ==
    IF ps = <<>> THEN Ok(g)
    ELSE LET poi == Head(ps)
         IN  IF ~Has(poi, "lat") \/ ~Has(poi, "lon")
             THEN Raise("KeyError", g)
             ELSE add_waypoints_to_gpx(AppendWaypoint(g, Waypoint(poi.lat, poi.lon)),
                                    Tail(ps))

-----------------------------------------------------------------------------
(* display_gpx_on_map *)

EmptyMap == [center |-> <<>>, polylines |-> <<>>, markers |-> <<>>]

RECURSIVE Sum(_)
Sum(s) == IF s = <<>> THEN 0 ELSE Head(s) + Sum(Tail(s))

\* The markers of the POIs, in order; the popup text is poi['tags']["amenity"].
RECURSIVE Markers(_, _)
Markers(ps, done) ==
    IF ps = <<>> THEN Ok(done)
    ELSE LET poi == Head(ps)
         IN  IF ~Has(poi, "lat") \/ ~Has(poi, "lon") \/ ~Has(poi, "tags")
             THEN Raise("KeyError", done)
             ELSE IF "amenity" \notin DOMAIN poi.tags
             THEN Raise("KeyError", done)
             ELSE Markers(Tail(ps),
                          Append(done, [location |-> <<poi.lat, poi.lon>>,
                                        popup |-> poi.tags.amenity]))

display_gpx_on_map(g, ps) ==
    LET pts == AllPoints(g)
        track_latitudes == [i \in DOMAIN pts |-> pts[i].latitude]
        track_longitudes == [i \in DOMAIN pts |-> pts[i].longitude]
        \* the two quotients, kept as numerator and denominator
        map_center == <<Sum(track_latitudes), Len(track_latitudes),
                        Sum(track_longitudes), Len(track_longitudes)>>
        polylines == Flatten([t \in DOMAIN g.tracks |->
                                [s \in DOMAIN g.tracks[t].segments |->
                                    [i \in DOMAIN g.tracks[t].segments[s].points |->
                                        <<g.tracks[t].segments[s].points[i].latitude,
                                          g.tracks[t].segments[s].points[i].longitude>>]]])
        marks == Markers(ps, <<>>)
    IN  IF Len(track_latitudes) = 0 THEN Raise("ZeroDivisionError", EmptyMap)
        ELSE IF marks.exc # "" THEN Raise(marks.exc, EmptyMap)
        ELSE Ok([center |-> map_center, polylines |-> polylines, markers |-> marks.val])

-----------------------------------------------------------------------------
(* Area, POI, Amenity, Natural *)

Area(min_lat, min_lon, max_lat, max_lon) ==
    [min_lat |-> min_lat, min_lon |-> min_lon, max_lat |-> max_lat, max_lon |-> max_lon]

\* Area.__str__
AreaStr(area) == <<area.min_lat, area.min_lon, area.max_lat, area.max_lon>>

\* The names bound at module level when a function of cli.py runs.
ModuleGlobals ==
    {"argparse", "math", "BytesIO", "folium", "gpxpy", "requests", "rich",
     "OVERPASS_URL", "console", "display_gpx_on_map", "download_gpx", "get_bounds",
     "Area", "POI", "Amenity", "Natural", "query_POIs", "query_snacks_and_drinks",
     "query_drinking_water", "add_waypoints_to_gpx", "haversine",
     "filter_pois_near_track", "main"}

\* POI.__init__(self, *args, **kwargs): whatever it is given, both fields are None
POI(primary, secondary) == Ok([_primary |-> None, _secondary |-> None])

\* Amenity.__init__(self, secondary): the call it makes names args and kwargs,
\* which are neither parameters nor module globals
Amenity(secondary) ==
    IF {"args", "kwargs"} \subseteq ModuleGlobals
    THEN POI("amenity", secondary)
    ELSE Raise("NameError", [_primary |-> None, _secondary |-> None])

\* Natural.__init__(self, secondary)
Natural(secondary) ==
    IF {"args", "kwargs"} \subseteq ModuleGlobals
    THEN POI("natural", secondary)
    ELSE Raise("NameError", [_primary |-> None, _secondary |-> None])

\* POI.__str__: "primary" or "primary"="secondary", as its quoted parts
POIStr(p) ==
    IF p._secondary # None THEN <<p._primary, "=", p._secondary>> ELSE <<p._primary>>

\* A Python value that may be None
NoneValue == [none |-> TRUE, text |-> <<>>]
Text(t) == [none |-> FALSE, text |-> t]

\* POI.get_query_line: the line is formatted and dropped; nothing is returned
get_query_line(p, area) == NoneValue

-----------------------------------------------------------------------------
(* query_POIs and query_drinking_water.  resp is what the Overpass API     *)
(* answers to a POST.                                                      *)

Responses ==
    {[kind |-> k, elements |-> <<>>] : k \in {"unreachable", "status_error", "no_elements"}}
    \cup {[kind |-> "ok", elements |-> e] : e \in SeqsUpTo(Candidates, MaxPois)}

Failed(resp) == resp.kind \in {"unreachable", "status_error"}

QueryResult(e, elems, sent) == [exc |-> e, val |-> elems, posted |-> sent]

QueryLines(poi_lines) ==
    [head |-> <<"[out:json][timeout:25];", "(">>,
     poi_lines |-> poi_lines,
     tail |-> <<");", "out body;">>]

\* The POST repeated once when it fails.
query_POIs_retry(ps, min_lat, min_lon, max_lat, max_lon, resp) ==
    LET area == Area(min_lat, min_lon, max_lat, max_lon)
        lines == [i \in DOMAIN ps |-> get_query_line(ps[i], area)]
        query == QueryLines([i \in DOMAIN ps |-> <<"  ">> \o lines[i].text])
    IN  IF \E i \in DOMAIN lines : lines[i].none
        THEN QueryResult("TypeError", <<>>, <<>>)
        ELSE IF resp.kind = "unreachable"
        THEN QueryResult("ConnectionError", <<>>, <<query, query>>)
        ELSE IF resp.kind = "status_error"
        THEN QueryResult("HTTPError", <<>>, <<query, query>>)
        ELSE IF resp.kind = "no_elements"
        THEN QueryResult("KeyError", <<>>, <<query>>)
        ELSE QueryResult("", resp.elements, <<query>>)

query_POIs(ps, min_lat, min_lon, max_lat, max_lon, resp) ==
    LET area == Area(min_lat, min_lon, max_lat, max_lon)
        lines == [i \in DOMAIN ps |-> get_query_line(ps[i], area)]
        \* "  " + None is a TypeError
        query == QueryLines([i \in DOMAIN ps |-> <<"  ">> \o lines[i].text])
    IN  IF \E i \in DOMAIN lines : lines[i].none
        THEN QueryResult("TypeError", <<>>, <<>>)
        \* requests.post
        ELSE IF resp.kind = "unreachable"
        THEN QueryResult("ConnectionError", <<>>, <<query>>)
        \* response.raise_for_status()
        ELSE IF resp.kind = "status_error"
        THEN QueryResult("HTTPError", <<>>, <<query>>)
        \* response.json()["elements"]
        ELSE IF resp.kind = "no_elements"
        THEN QueryResult("KeyError", <<>>, <<query>>)
        ELSE QueryResult("", resp.elements, <<query>>)

query_drinking_water(min_lat, min_lon, max_lat, max_lon, resp) ==
    LET first == Amenity("drinking_water")
        second == Natural("spring")
    IN  IF first.exc # "" THEN QueryResult(first.exc, <<>>, <<>>)
        ELSE IF second.exc # "" THEN QueryResult(second.exc, <<>>, <<>>)
        ELSE query_POIs(<<first.val, second.val>>, min_lat, min_lon, max_lat, max_lon, resp)

-----------------------------------------------------------------------------
(* main: the stages in the order of the source.  Nothing in main catches   *)
(* an exception, so the first stage that raises ends the run.              *)

MainStart(out0) ==
    [exc |-> "", at |-> "", gpx |-> NoGpx, bounds |-> <<>>, posted |-> <<>>,
     elements |-> <<>>, nearby |-> <<>>, folium_map |-> EmptyMap,
     outfile |-> out0, htmlfile |-> "absent", printed |-> 0]

Fail(m, e, stage) == [m EXCEPT !.exc = e, !.at = stage]

\* parser.parse_args(): type=argparse.FileType("w") opens the output path for
\* writing while the arguments are parsed, which creates or truncates it
ParseArgs(m, e) ==
    IF e.fault = "output_unwritable"
    THEN Fail(m, "SystemExit", "parse_args")
    ELSE [m EXCEPT !.outfile = "empty"]

\* download_gpx(args.input) or open(args.input, "rb")
OpenInput(m, e) ==
    IF e.fault = "input_missing"
    THEN Fail(m, IF e.input = "url" THEN "HTTPError" ELSE "FileNotFoundError",
              "open_input")
    ELSE m

\* gpx = gpxpy.parse(input)
ParseGpx(m, e, file) ==
    IF e.fault = "input_malformed"
    THEN Fail(m, "GPXXMLSyntaxException", "parse")
    ELSE [m EXCEPT !.gpx = file]

\* bounds = get_bounds(gpx)
BoundsStage(m) ==
    LET r == get_bounds(m.gpx)
    IN  IF r.exc # "" THEN Fail(m, r.exc, "get_bounds")
        ELSE [m EXCEPT !.bounds = r.val]

\* pois = query_drinking_water(*bounds)
QueryStage(m, e) ==
    LET r == query_drinking_water(m.bounds[1], m.bounds[2], m.bounds[3], m.bounds[4],
                                e.response)
        sent == [m EXCEPT !.posted = r.posted]
    IN  IF r.exc # "" THEN Fail(sent, r.exc, "query")
        ELSE [sent EXCEPT !.elements = r.val]

\* pois = filter_pois_near_track(gpx, pois, max_distance_m=args.distance)
FilterStage(m, d) ==
    LET r == filter_pois_near_track(m.gpx, m.elements, d)
    IN  IF r.exc # "" THEN Fail(m, r.exc, "filter")
        ELSE [m EXCEPT !.nearby = r.val]

\* gpx = add_waypoints_to_gpx(gpx, pois)
WaypointStage(m) ==
    LET r == add_waypoints_to_gpx(m.gpx, m.nearby)
        added == [m EXCEPT !.gpx = r.val]
    IN  IF r.exc # "" THEN Fail(added, r.exc, "add_waypoints") ELSE added

\* args.output.write(gpx.to_xml())
WriteStage(m, e) ==
    IF e.fault = "write_fails"
    THEN Fail([m EXCEPT !.outfile = "partial"], "OSError", "write")
    ELSE [m EXCEPT !.outfile = "xml"]

\* if args.html: map = display_gpx_on_map(gpx, pois); map.save(...)
HtmlStage(m, e) ==
    IF ~e.html THEN m
    ELSE LET r == display_gpx_on_map(m.gpx, m.nearby)
         IN  IF r.exc # "" THEN Fail(m, r.exc, "html")
             ELSE [m EXCEPT !.folium_map = r.val, !.htmlfile = "saved"]

\* console.print(f"... Added {len(pois)} POI to {args.output.name}")
PrintStage(m) == [m EXCEPT !.printed = @ + 1]

\* The statements of main (lines 291-310), in order
MainStages ==
    <<"parse_args", "open_input", "parse", "get_bounds", "query", "filter",
      "add_waypoints", "write", "html", "print">>

Stage(m, stage, e, file, d) ==
    CASE stage = "parse_args" -> ParseArgs(m, e)
      [] stage = "open_input" -> OpenInput(m, e)
      [] stage = "parse" -> ParseGpx(m, e, file)
      [] stage = "get_bounds" -> BoundsStage(m)
      [] stage = "query" -> QueryStage(m, e)
      [] stage = "filter" -> FilterStage(m, d)
      [] stage = "add_waypoints" -> WaypointStage(m)
      [] stage = "write" -> WriteStage(m, e)
      [] stage = "html" -> HtmlStage(m, e)
      [] stage = "print" -> PrintStage(m)

RECURSIVE RunStages(_, _, _, _, _)
RunStages(m, stages, e, file, d) ==
    IF stages = <<>> \/ m.exc # "" THEN m
    ELSE RunStages(Stage(m, Head(stages), e, file, d), Tail(stages), e, file, d)

main(e, file, d, out0) == RunStages(MainStart(out0), MainStages, e, file, d)

-----------------------------------------------------------------------------
(* The inputs *)

BoundsGrid == {Point(-90, 90), Point(0, -180), Point(0, 0), Point(90, 90)}
TrackGrid == {Point(0, 0), Point(0, 90), Point(0, -90)}
Thresholds == {0, 100, QuarterMeridian, QuarterMeridian + 1}
OldWaypoints == SeqsUpTo({OldWaypoint}, MaxOldWaypoints)
BoundsArgs == {<<0, 0, 0, 0>>, <<0, -90, 0, 90>>, <<-90, -180, 90, 180>>}
POIObjects == {POI(None, None).val}

\* input: args.input is a path or a URL; output: what the output path holds
\* before the run; fault: what the outside world refuses, if anything;
\* html: --html; response: what the Overpass API would answer
Envs(inputs, outputs, faults, htmls, responses) ==
    {[input |-> i, output |-> o, fault |-> f, html |-> h, response |-> r] :
        i \in inputs, o \in outputs, f \in faults, h \in htmls, r \in responses}

NoEnv == [input |-> "path", output |-> "absent", fault |-> "none", html |-> FALSE,
          response |-> [kind |-> "ok", elements |-> <<>>]]

MainEnvs ==
    Envs({"path", "url"},
         {"absent", "old"},
         {"none", "output_unwritable", "input_missing", "input_malformed", "write_fails"},
         BOOLEAN,
         {r \in Responses : Len(r.elements) <= 1})

Start(e) ==
    /\ entry = e
    /\ pc = "call"
    /\ exc = ""
    /\ at = ""
    /\ posted = <<>>
    /\ elements = <<>>
    /\ nearby = <<>>
    /\ folium_map = EmptyMap
    /\ htmlfile = "absent"
    /\ printed = 0

InitBounds ==
    /\ Start("get_bounds")
    /\ gpx0 \in GpxObjects(BoundsGrid, MaxBoundsPoints, {<<>>})
    /\ gpx = gpx0
    /\ env = NoEnv /\ cats = <<>> /\ bounds = <<>> /\ pois = <<>>
    /\ distance = 100 /\ outfile = "absent"

InitFilter ==
    /\ Start("filter_pois_near_track")
    /\ gpx0 \in GpxObjects(TrackGrid, MaxPoints, {<<>>})
    /\ gpx = gpx0
    /\ pois \in SeqsUpTo(Candidates, MaxPois)
    /\ distance \in Thresholds
    /\ env = NoEnv /\ cats = <<>> /\ bounds = <<>> /\ outfile = "absent"

InitWaypoints ==
    /\ Start("add_waypoints_to_gpx")
    /\ gpx0 \in GpxObjects(TrackGrid, MaxPoints, OldWaypoints)
    /\ gpx = gpx0
    /\ pois \in SeqsUpTo(Candidates, MaxPois)
    /\ env = NoEnv /\ cats = <<>> /\ bounds = <<>>
    /\ distance = 100 /\ outfile = "absent"

InitDisplay ==
    /\ Start("display_gpx_on_map")
    /\ gpx0 \in GpxObjects(TrackGrid, MaxPoints, {<<>>})
    /\ gpx = gpx0
    /\ pois \in SeqsUpTo(Candidates, MaxPois)
    /\ env = NoEnv /\ cats = <<>> /\ bounds = <<>>
    /\ distance = 100 /\ outfile = "absent"

InitQueryPOIs ==
    /\ Start("query_POIs")
    /\ cats \in SeqsUpTo(POIObjects, MaxCats)
    /\ bounds \in BoundsArgs
    /\ env \in Envs({"path"}, {"absent"}, {"none"}, {FALSE}, Responses)
    /\ gpx0 = NoGpx /\ gpx = NoGpx /\ pois = <<>>
    /\ distance = 100 /\ outfile = "absent"

InitQueryDrinkingWater ==
    /\ Start("query_drinking_water")
    /\ cats = <<>>
    /\ bounds \in BoundsArgs
    /\ env \in Envs({"path"}, {"absent"}, {"none"}, {FALSE}, Responses)
    /\ gpx0 = NoGpx /\ gpx = NoGpx /\ pois = <<>>
    /\ distance = 100 /\ outfile = "absent"

InitMain ==
    /\ Start("main")
    /\ env \in MainEnvs
    /\ gpx0 \in GpxObjects(TrackGrid, MaxPoints, {<<>>})
    /\ gpx = NoGpx
    /\ distance \in {100, QuarterMeridian + 1}
    /\ outfile = env.output
    /\ cats = <<>> /\ bounds = <<>> /\ pois = <<>>

-----------------------------------------------------------------------------
(* The calls *)

Outcome(e) == IF e = "" THEN "returned" ELSE "raised"

CallGetBounds ==
    /\ entry = "get_bounds" /\ pc = "call"
    /\ LET r == get_bounds(gpx)
       IN  /\ pc' = Outcome(r.exc)
           /\ exc' = r.exc
           /\ at' = IF r.exc = "" THEN "" ELSE "get_bounds"
           /\ bounds' = r.val
    /\ UNCHANGED <<entry, env, gpx0, gpx, cats, pois, distance, posted, elements,
                   nearby, folium_map, outfile, htmlfile, printed>>

CallFilterPoisNearTrack ==
    /\ entry = "filter_pois_near_track" /\ pc = "call"
    /\ LET r == filter_pois_near_track(gpx, pois, distance)
       IN  /\ pc' = Outcome(r.exc)
           /\ exc' = r.exc
           /\ at' = IF r.exc = "" THEN "" ELSE "filter"
           /\ nearby' = r.val
    /\ UNCHANGED <<entry, env, gpx0, gpx, cats, bounds, pois, distance, posted,
                   elements, folium_map, outfile, htmlfile, printed>>

CallAddWaypointsToGpx ==
    /\ entry = "add_waypoints_to_gpx" /\ pc = "call"
    /\ LET r == add_waypoints_to_gpx(gpx, pois)
       IN  /\ pc' = Outcome(r.exc)
           /\ exc' = r.exc
           /\ at' = IF r.exc = "" THEN "" ELSE "add_waypoints"
           /\ gpx' = r.val
    /\ UNCHANGED <<entry, env, gpx0, cats, bounds, pois, distance, posted, elements,
                   nearby, folium_map, outfile, htmlfile, printed>>

CallDisplayGpxOnMap ==
    /\ entry = "display_gpx_on_map" /\ pc = "call"
    /\ LET r == display_gpx_on_map(gpx, pois)
       IN  /\ pc' = Outcome(r.exc)
           /\ exc' = r.exc
           /\ at' = IF r.exc = "" THEN "" ELSE "html"
           /\ folium_map' = r.val
    /\ UNCHANGED <<entry, env, gpx0, gpx, cats, bounds, pois, distance, posted,
                   elements, nearby, outfile, htmlfile, printed>>

CallQueryPOIs ==
    /\ entry = "query_POIs" /\ pc = "call"
    /\ LET r == query_POIs(cats, bounds[1], bounds[2], bounds[3], bounds[4], env.response)
       IN  /\ pc' = Outcome(r.exc)
           /\ exc' = r.exc
           /\ at' = IF r.exc = "" THEN "" ELSE "query"
           /\ posted' = r.posted
           /\ elements' = r.val
    /\ UNCHANGED <<entry, env, gpx0, gpx, cats, bounds, pois, distance, nearby,
                   folium_map, outfile, htmlfile, printed>>

CallQueryDrinkingWater ==
    /\ entry = "query_drinking_water" /\ pc = "call"
    /\ LET r == query_drinking_water(bounds[1], bounds[2], bounds[3], bounds[4],
                                   env.response)
       IN  /\ pc' = Outcome(r.exc)
           /\ exc' = r.exc
           /\ at' = IF r.exc = "" THEN "" ELSE "query"
           /\ posted' = r.posted
           /\ elements' = r.val
    /\ UNCHANGED <<entry, env, gpx0, gpx, cats, bounds, pois, distance, nearby,
                   folium_map, outfile, htmlfile, printed>>

CallMain ==
    /\ entry = "main" /\ pc = "call"
    /\ LET m == main(env, gpx0, distance, outfile)
       IN  /\ pc' = Outcome(m.exc)
           /\ exc' = m.exc
           /\ at' = m.at
           /\ gpx' = m.gpx
           /\ bounds' = m.bounds
           /\ posted' = m.posted
           /\ elements' = m.elements
           /\ nearby' = m.nearby
           /\ folium_map' = m.folium_map
           /\ outfile' = m.outfile
           /\ htmlfile' = m.htmlfile
           /\ printed' = m.printed
    /\ UNCHANGED <<entry, env, gpx0, cats, pois, distance>>

-----------------------------------------------------------------------------
(* Specifications: every function on its own, main, and all of them *)

SpecBounds == InitBounds /\ [][CallGetBounds]_vars
SpecFilter == InitFilter /\ [][CallFilterPoisNearTrack]_vars
SpecWaypoints == InitWaypoints /\ [][CallAddWaypointsToGpx]_vars
SpecDisplay == InitDisplay /\ [][CallDisplayGpxOnMap]_vars
SpecMain == InitMain /\ [][CallMain]_vars

InitQuery == InitQueryPOIs \/ InitQueryDrinkingWater \/ InitMain
NextQuery == CallQueryPOIs \/ CallQueryDrinkingWater \/ CallMain
SpecQuery == InitQuery /\ [][NextQuery]_vars

Init ==
    \/ InitBounds \/ InitFilter \/ InitWaypoints \/ InitDisplay
    \/ InitQueryPOIs \/ InitQueryDrinkingWater \/ InitMain

Next ==
    \/ CallGetBounds \/ CallFilterPoisNearTrack \/ CallAddWaypointsToGpx
    \/ CallDisplayGpxOnMap \/ CallQueryPOIs \/ CallQueryDrinkingWater \/ CallMain

Spec == Init /\ [][Next]_vars

-----------------------------------------------------------------------------
(* What the properties speak of *)

\* The track points of g, over all tracks and segments, as a set.
TrackPoints(g) ==
    UNION { UNION { Range(g.tracks[t].segments[s].points)
                    : s \in DOMAIN g.tracks[t].segments }
            : t \in DOMAIN g.tracks }

\* The distances from a POI to the track points of the GPX handed in.
Distances(poi) ==
    { haversine(poi.lat, poi.lon, pt.latitude, pt.longitude) : pt \in TrackPoints(gpx0) }

Complete(poi) == {"lat", "lon"} \subseteq poi.keys

\* s is t with some elements left out: an increasing choice of places of t.
IsSubsequence(s, t) ==
    \E f \in [DOMAIN s -> DOMAIN t] :
        /\ \A i \in DOMAIN s : t[f[i]] = s[i]
        /\ \A i, j \in DOMAIN s : i < j => f[i] < f[j]

FilterReturned == entry = "filter_pois_near_track" /\ pc = "returned"

-----------------------------------------------------------------------------
(* Properties *)

\* C1: filter_pois_near_track returns a candidate if and only if some track
\* point, over all tracks and segments, is strictly nearer to it than
\* max_distance_m; a candidate whose nearest track point is exactly at
\* max_distance_m is left out.
C1_AcceptedIffStrictlyWithin ==
    FilterReturned =>
        /\ \A j \in DOMAIN nearby :
              /\ nearby[j] \in Range(pois)
              /\ \E d \in Distances(nearby[j]) : d < distance
        /\ \A i \in DOMAIN pois :
              pois[i] \notin Range(nearby) => \A d \in Distances(pois[i]) : d >= distance
        /\ \A i \in DOMAIN pois :
              (Distances(pois[i]) # {} /\ SetMin(Distances(pois[i])) = distance)
                  => pois[i] \notin Range(nearby)

\* A candidate exactly at the threshold was left out while another was kept.
C1_Witness ==
    /\ FilterReturned
    /\ nearby # <<>>
    /\ \E i \in DOMAIN pois :
          /\ Distances(pois[i]) # {}
          /\ SetMin(Distances(pois[i])) = distance
          /\ pois[i] \notin Range(nearby)

\* C2: what filter_pois_near_track returns is a subsequence of the candidates
\* it was given: nothing new, nothing more often, in the same relative order.
C2_ResultIsSubsequence ==
    FilterReturned => IsSubsequence(nearby, pois)

\* Two different candidates were kept and the one between them left out.
C2_Witness ==
    /\ FilterReturned
    /\ Len(pois) = 3
    /\ nearby = <<pois[1], pois[3]>>
    /\ pois[1] # pois[3]

\* C3: add_waypoints_to_gpx leaves the tracks as they were, keeps the old
\* waypoints in front, and appends one waypoint per candidate, in order, at
\* the candidate's coordinates.
C3_WaypointsAppended ==
    (entry = "add_waypoints_to_gpx" /\ pc = "returned") =>
        LET old == Len(gpx0.waypoints)
        IN  /\ gpx.tracks = gpx0.tracks
            /\ Len(gpx.waypoints) = old + Len(pois)
            /\ SubSeq(gpx.waypoints, 1, old) = gpx0.waypoints
            /\ \A i \in DOMAIN pois :
                  /\ gpx.waypoints[old + i].latitude = pois[i].lat
                  /\ gpx.waypoints[old + i].longitude = pois[i].lon
                  /\ gpx.waypoints[old + i].name = "Water"

\* Two candidates were appended to a GPX that had a waypoint and track points.
C3_Witness ==
    /\ entry = "add_waypoints_to_gpx" /\ pc = "returned"
    /\ Len(pois) >= 2 /\ pois[1] # pois[2]
    /\ gpx0.waypoints # <<>>
    /\ TrackPoints(gpx0) # {}

\* C4: for a GPX with at least one track point get_bounds returns
\* (south, west, north, east) with south <= north and west <= east, every
\* track point inside, and each bound attained by some track point.
C4_BoundsEncloseTrack ==
    (entry = "get_bounds" /\ pc # "call" /\ TrackPoints(gpx0) # {}) =>
        /\ pc = "returned"
        /\ Len(bounds) = 4
        /\ bounds[1] <= bounds[3]
        /\ bounds[2] <= bounds[4]
        /\ \A pt \in TrackPoints(gpx0) :
              /\ bounds[1] <= pt.latitude /\ pt.latitude <= bounds[3]
              /\ bounds[2] <= pt.longitude /\ pt.longitude <= bounds[4]
        /\ \E pt \in TrackPoints(gpx0) : pt.latitude = bounds[1]
        /\ \E pt \in TrackPoints(gpx0) : pt.longitude = bounds[2]
        /\ \E pt \in TrackPoints(gpx0) : pt.latitude = bounds[3]
        /\ \E pt \in TrackPoints(gpx0) : pt.longitude = bounds[4]

\* A box was returned for points spread over two tracks, differing in
\* latitude and in longitude.
C4_Witness ==
    /\ entry = "get_bounds" /\ pc = "returned"
    /\ Len(gpx0.tracks) >= 2
    /\ bounds[1] < bounds[3]
    /\ bounds[2] < bounds[4]

\* The query text the categories and the box call for: one clause per
\* category, in order, inside one union block, timeout 25, JSON bodies.
Clause(key, value, box) ==
    <<"  ", "node[", key, "=", value, "]", "(", box, ")", ";">>

ExpectedQuery(categories, box) ==
    QueryLines([i \in DOMAIN categories |->
                    Clause(categories[i][1], categories[i][2], box)])

Water == << <<"amenity", "drinking_water">>, <<"natural", "spring">> >>

\* C5: the query builder yields, for the drinking-water categories and a
\* box, the text with one clause per category rather than an error.
C5_DrinkingWaterQueryBuilt ==
    (entry = "query_drinking_water" /\ pc # "call") =>
        /\ exc \notin {"NameError", "TypeError"}
        /\ Len(posted) = 1
        /\ posted[1] = ExpectedQuery(Water, bounds)

\* A candidate the filter is to keep: it has both coordinates and some track
\* point is strictly nearer than the threshold.
Accepted(poi) == Complete(poi) /\ \E d \in Distances(poi) : d < distance

\* C6: a candidate without lat or lon is left out and the others are
\* filtered as usual; the call does not fail.
C6_MalformedCandidateSkipped ==
    (entry = "filter_pois_near_track" /\ pc # "call") =>
        /\ pc = "returned"
        /\ nearby = SelectSeq(pois, Accepted)

\* C7: a run of main that fails leaves the output path as it was.
C7_NoOutputOnFailure ==
    (entry = "main" /\ pc = "raised") => outfile = env.output

\* C8: when the parsed GPX has no track point, main ends in get_bounds with
\* an error: nothing is posted, filtered, appended or printed.
C8_EmptyTrackAborts ==
    (/\ entry = "main" /\ pc # "call"
     /\ at \notin {"parse_args", "open_input", "parse"}
     /\ TrackPoints(gpx0) = {}) =>
        /\ pc = "raised"
        /\ exc = "ValueError"
        /\ at = "get_bounds"
        /\ bounds = <<>>
        /\ posted = <<>>
        /\ elements = <<>>
        /\ nearby = <<>>
        /\ gpx.waypoints = gpx0.waypoints
        /\ outfile # "xml"
        /\ htmlfile = "absent"
        /\ printed = 0

\* main ended in get_bounds on a GPX that has a track but no point.
C8_Witness ==
    /\ entry = "main" /\ pc = "raised"
    /\ at = "get_bounds" /\ exc = "ValueError"
    /\ gpx = gpx0
    /\ Len(gpx0.tracks) = 1

C10_MapForEveryPoiList ==
    (/\ entry = "display_gpx_on_map" /\ pc # "call"
     /\ TrackPoints(gpx0) # {}
     /\ \A i \in DOMAIN pois : pois[i].keys = {"lat", "lon", "tags"}) =>
        /\ pc = "returned"
        /\ Len(folium_map.markers) = Len(pois)

=============================================================================
